---- MODULE Spec2Model ----
(***************************************************************************)
(* Model of src/bitonic/src/main.rs: compare-exchange networks over lane   *)
(* vectors, the two stage semantics (swap, shift) and the exhaustive       *)
(* verifier test_sort, driven by main over the catalogue of networks.      *)
(*                                                                         *)
(* A LaneArray is a function 0..len-1 -> Lane (the source indexes lanes    *)
(* from 0); a Lane is a record [key, meta].  All values stay far below     *)
(* 2^64, so u64 arithmetic never wraps.                                    *)
(***************************************************************************)
EXTENDS Integers, Sequences, FiniteSets, TLC

\* const PENALTY:u64 = 256
PENALTY == 256

\* cmp::max on u64
Max(a, b) == IF a >= b THEN a ELSE b

\* enum LaneArrayType { Simple(u64), Hidden(u64) }
Simple(m) == [tag |-> "Simple", mask |-> m]
Hidden(m) == [tag |-> "Hidden", mask |-> m]

\* mask & (1u64 << idx) > 0
MaskBit(m, idx) == (m \div (2 ^ idx)) % 2 = 1

\* Lane::new(typ, idx)
LaneNew(typ, idx) ==
    LET pen == IF MaskBit(typ.mask, idx) THEN PENALTY ELSE 0
    IN  IF typ.tag = "Simple"
        THEN [key |-> Max(idx, pen), meta |-> Max(idx, pen)]
        ELSE [key |-> pen, meta |-> Max(idx, pen)]

\* struct LaneSwap(usize, usize) and its constructor sw(a, b)
sw(a, b) == <<a, b>>

\* LaneArray::new(len, typ)
LaneArrayNew(n, typ) == [idx \in 0 .. (n - 1) |-> LaneNew(typ, idx)]

\* self.lanes.len()
LanesLen(v) == Cardinality(DOMAIN v)

\* The loop of is_sorted_key from lane idx on, prev carried along.
RECURSIVE SortedKeyFrom(_, _, _)
SortedKeyFrom(v, idx, prev) ==
    IF idx >= LanesLen(v) THEN TRUE
    ELSE IF v[idx].key < prev THEN FALSE
    ELSE SortedKeyFrom(v, idx + 1, v[idx].key)

\* LaneArray::is_sorted_key
is_sorted_key(v) == SortedKeyFrom(v, 0, 0)

\* The loop of is_sorted_meta from lane idx on, prev carried along.
RECURSIVE SortedMetaFrom(_, _, _)
SortedMetaFrom(v, idx, prev) ==
    IF idx >= LanesLen(v) THEN TRUE
    ELSE IF v[idx].meta < prev THEN FALSE
    ELSE SortedMetaFrom(v, idx + 1, v[idx].meta)

\* Faulty variant of is_sorted_meta: the loop copied from is_sorted_key with
\* the field left as key.
is_sorted_meta_key(v) == SortedKeyFrom(v, 0, 0)

\* LaneArray::is_sorted_meta
is_sorted_meta(v) == SortedMetaFrom(v, 0, 0)

\* Faulty variant of swapOp: strict comparison, so equal keys are exchanged.
swapOpStrict(self, result, op) ==
    LET n1 == op[1]
        n2 == op[2]
    IN  IF self[n1].key < self[n2].key
        THEN [result EXCEPT ![n1] = self[n1], ![n2] = self[n2]]
        ELSE [result EXCEPT ![n1] = self[n2], ![n2] = self[n1]]

\* Faulty variant of swapOp: the clone of self is taken inside the loop, so
\* every iteration starts again from the input and drops the earlier outputs.
swapOpReset(self, result, op) ==
    LET n1 == op[1]
        n2 == op[2]
    IN  IF self[n1].key <= self[n2].key
        THEN [self EXCEPT ![n1] = self[n1], ![n2] = self[n2]]
        ELSE [self EXCEPT ![n1] = self[n2], ![n2] = self[n1]]

\* One iteration of the loop of LaneArray::swap: reads self, writes result.
swapOp(self, result, op) ==
    LET n1 == op[1]
        n2 == op[2]
    IN  IF self[n1].key <= self[n2].key
        THEN [result EXCEPT ![n1] = self[n1], ![n2] = self[n2]]
        ELSE [result EXCEPT ![n1] = self[n2], ![n2] = self[n1]]

\* Faulty variant of shiftOp: the promoted lane is copied, not moved (the
\* second index is left as it was on the invalid branch).
shiftOpKeep(self, result, op) ==
    LET n1 == op[1]
        n2 == op[2]
    IN  IF self[n1].key < PENALTY
        THEN [result EXCEPT ![n1] = self[n1], ![n2] = self[n2]]
        ELSE [result EXCEPT ![n1] = self[n2], ![n2] = self[n2]]

\* Faulty variant of shiftOp: the placeholder overwrites the key only and
\* leaves the meta of the second index in place.
shiftOpKeyOnly(self, result, op) ==
    LET n1 == op[1]
        n2 == op[2]
    IN  IF self[n1].key < PENALTY
        THEN [result EXCEPT ![n1] = self[n1], ![n2] = self[n2]]
        ELSE [result EXCEPT ![n1] = self[n2],
                            ![n2] = [key |-> PENALTY, meta |-> self[n2].meta]]

\* One iteration of the loop of LaneArray::shift: reads self, writes result.
shiftOp(self, result, op) ==
    LET n1 == op[1]
        n2 == op[2]
    IN  IF self[n1].key < PENALTY
        THEN [result EXCEPT ![n1] = self[n1], ![n2] = self[n2]]
        ELSE [result EXCEPT ![n1] = self[n2],
                            ![n2] = [key |-> PENALTY, meta |-> PENALTY]]

\* The loop body chosen by the method called.
stageOp(kind, self, result, op) ==
    IF kind = "swap" THEN swapOp(self, result, op) ELSE shiftOp(self, result, op)

\* for LaneSwap(n1,n2) in ops.iter() { ... } from the i-th operator on.
RECURSIVE opsLoop(_, _, _, _, _)
opsLoop(kind, self, result, ops, i) ==
    IF i > Len(ops) THEN result
    ELSE opsLoop(kind, self, stageOp(kind, self, result, ops[i]), ops, i + 1)

\* LaneArray::swap: result = self.clone(); loop; return result
swap(self, ops) == opsLoop("swap", self, self, ops, 1)

\* LaneArray::shift: result = self.clone(); loop; return result
shift(self, ops) == opsLoop("shift", self, self, ops, 1)

(***************************************************************************)
(* The catalogue.  A sorting function is the arity its assert_eq! demands  *)
(* and the sequence of its stages p1, p2, ...; a stage is the method       *)
(* called on the previous vector and the operator list passed to it.       *)
(***************************************************************************)
SwapStage(ops) == [kind |-> "swap", ops |-> ops]
ShiftStage(ops) == [kind |-> "shift", ops |-> ops]

bitonic4a == [arity |-> 4, stages |-> <<
    SwapStage(<<sw(0,1), sw(3,2)>>),
    SwapStage(<<sw(0,2), sw(1,3)>>),
    SwapStage(<<sw(0,1), sw(2,3)>>) >>]

bitonic4b == [arity |-> 4, stages |-> <<
    SwapStage(<<sw(0,1), sw(2,3)>>),
    SwapStage(<<sw(0,3), sw(1,2)>>),
    SwapStage(<<sw(0,1), sw(2,3)>>) >>]

bitonic8a == [arity |-> 8, stages |-> <<
    SwapStage(<<sw(0,1), sw(3,2), sw(4,5), sw(7,6)>>),
    SwapStage(<<sw(0,2), sw(1,3), sw(7,5), sw(6,4)>>),
    SwapStage(<<sw(0,1), sw(2,3), sw(5,4), sw(7,6)>>),
    SwapStage(<<sw(0,4), sw(1,5), sw(2,6), sw(3,7)>>),
    SwapStage(<<sw(0,2), sw(1,3), sw(4,6), sw(5,7)>>),
    SwapStage(<<sw(0,1), sw(2,3), sw(4,5), sw(6,7)>>) >>]

bitonic8b == [arity |-> 8, stages |-> <<
    SwapStage(<<sw(0,1), sw(2,3), sw(4,5), sw(6,7)>>),
    SwapStage(<<sw(0,3), sw(1,2), sw(4,7), sw(5,6)>>),
    SwapStage(<<sw(0,1), sw(2,3), sw(4,5), sw(6,7)>>),
    SwapStage(<<sw(0,7), sw(1,6), sw(2,5), sw(3,4)>>),
    SwapStage(<<sw(0,2), sw(1,3), sw(4,6), sw(5,7)>>),
    SwapStage(<<sw(0,1), sw(2,3), sw(4,5), sw(6,7)>>) >>]

batcher8 == [arity |-> 8, stages |-> <<
    SwapStage(<<sw(0,1), sw(2,3), sw(4,5), sw(6,7)>>),
    SwapStage(<<sw(0,2), sw(1,3), sw(4,6), sw(5,7)>>),
    SwapStage(<<sw(1,2), sw(5,6)>>),
    SwapStage(<<sw(0,4), sw(1,5), sw(2,6), sw(3,7)>>),
    SwapStage(<<sw(2,4), sw(3,5)>>),
    SwapStage(<<sw(1,2), sw(3,4), sw(5,6)>>) >>]

bubble8 == [arity |-> 8, stages |-> <<
    ShiftStage(<<sw(0,1)>>),
    ShiftStage(<<sw(1,2)>>),
    ShiftStage(<<sw(0,1), sw(2,3)>>),
    ShiftStage(<<sw(1,2), sw(3,4)>>),
    ShiftStage(<<sw(0,1), sw(2,3), sw(4,5)>>),
    ShiftStage(<<sw(1,2), sw(3,4), sw(5,6)>>),
    ShiftStage(<<sw(0,1), sw(2,3), sw(4,5), sw(6,7)>>),
    ShiftStage(<<sw(1,2), sw(3,4), sw(5,6)>>),
    ShiftStage(<<sw(0,1), sw(2,3), sw(4,5)>>),
    ShiftStage(<<sw(1,2), sw(3,4)>>),
    ShiftStage(<<sw(0,1), sw(2,3)>>),
    ShiftStage(<<sw(1,2)>>),
    ShiftStage(<<sw(0,1)>>) >>]

pairwise8 == [arity |-> 8, stages |-> <<
    SwapStage(<<sw(0,1), sw(2,3), sw(4,5), sw(6,7)>>),
    SwapStage(<<sw(0,2), sw(1,3), sw(4,6), sw(5,7)>>),
    SwapStage(<<sw(0,4), sw(1,5), sw(2,6), sw(3,7)>>),
    SwapStage(<<sw(2,4), sw(3,5)>>),
    SwapStage(<<sw(1,4), sw(3,6)>>),
    SwapStage(<<sw(1,2), sw(3,4), sw(5,6)>>) >>]

transpose8 == [arity |-> 8, stages |-> <<
    SwapStage(<<sw(0,1), sw(2,3), sw(4,5), sw(6,7)>>),
    SwapStage(<<sw(1,2), sw(3,4), sw(5,6)>>),
    SwapStage(<<sw(0,1), sw(2,3), sw(4,5), sw(6,7)>>),
    SwapStage(<<sw(1,2), sw(3,4), sw(5,6)>>),
    SwapStage(<<sw(0,1), sw(2,3), sw(4,5), sw(6,7)>>),
    SwapStage(<<sw(1,2), sw(3,4), sw(5,6)>>),
    SwapStage(<<sw(0,1), sw(2,3), sw(4,5), sw(6,7)>>),
    SwapStage(<<sw(1,2), sw(3,4), sw(5,6)>>) >>]

transpose8s == [arity |-> 8, stages |-> <<
    ShiftStage(<<sw(0,1), sw(2,3), sw(4,5), sw(6,7)>>),
    ShiftStage(<<sw(1,2), sw(3,4), sw(5,6)>>),
    ShiftStage(<<sw(0,1), sw(2,3), sw(4,5), sw(6,7)>>),
    ShiftStage(<<sw(1,2), sw(3,4), sw(5,6)>>),
    ShiftStage(<<sw(0,1), sw(2,3), sw(4,5), sw(6,7)>>),
    ShiftStage(<<sw(1,2), sw(3,4), sw(5,6)>>),
    ShiftStage(<<sw(0,1), sw(2,3), sw(4,5), sw(6,7)>>),
    ShiftStage(<<sw(1,2), sw(3,4), sw(5,6)>>) >>]

transpose3s == [arity |-> 3, stages |-> <<
    ShiftStage(<<sw(0,1)>>),
    ShiftStage(<<sw(1,2)>>),
    ShiftStage(<<sw(0,1)>>) >>]

transpose5s == [arity |-> 5, stages |-> <<
    ShiftStage(<<sw(0,1), sw(2,3)>>),
    ShiftStage(<<sw(1,2), sw(3,4)>>),
    ShiftStage(<<sw(0,1), sw(2,3)>>),
    ShiftStage(<<sw(1,2), sw(3,4)>>),
    ShiftStage(<<sw(0,1), sw(2,3)>>) >>]

transpose6s == [arity |-> 6, stages |-> <<
    ShiftStage(<<sw(0,1), sw(2,3), sw(4,5)>>),
    ShiftStage(<<sw(1,2), sw(3,4)>>),
    ShiftStage(<<sw(0,1), sw(2,3), sw(4,5)>>),
    ShiftStage(<<sw(1,2), sw(3,4)>>),
    ShiftStage(<<sw(0,1), sw(2,3), sw(4,5)>>),
    ShiftStage(<<sw(1,2), sw(3,4)>>) >>]

\* The calls of main, in order: test_sort(len, lbl, sortfn).
tests == <<
    [len |-> 4, lbl |-> "bitonic4a",   sortfn |-> bitonic4a],
    [len |-> 4, lbl |-> "bitonic4b",   sortfn |-> bitonic4b],
    [len |-> 8, lbl |-> "bitonic8a",   sortfn |-> bitonic8a],
    [len |-> 8, lbl |-> "bitonic8b",   sortfn |-> bitonic8b],
    [len |-> 8, lbl |-> "batcher8",    sortfn |-> batcher8],
    [len |-> 8, lbl |-> "bubble8\t",   sortfn |-> bubble8],
    [len |-> 8, lbl |-> "pairwise8",   sortfn |-> pairwise8],
    [len |-> 8, lbl |-> "transpose8",  sortfn |-> transpose8],
    [len |-> 8, lbl |-> "transpose8s", sortfn |-> transpose8s],
    [len |-> 3, lbl |-> "transpose3s", sortfn |-> transpose3s],
    [len |-> 5, lbl |-> "transpose5s", sortfn |-> transpose5s],
    [len |-> 6, lbl |-> "transpose6s", sortfn |-> transpose6s] >>

\* The vector after the first k stages of a sorting function (p_k).
RECURSIVE Pipeline(_, _, _)
Pipeline(fn, p0, k) ==
    IF k = 0 THEN p0
    ELSE LET st == fn.stages[k]
             q  == Pipeline(fn, p0, k - 1)
         IN  IF st.kind = "swap" THEN swap(q, st.ops) ELSE shift(q, st.ops)

\* sortfn(&x): the value the function returns.
Apply(fn, p0) == Pipeline(fn, p0, Len(fn.stages))

(***************************************************************************)
(* State.                                                                  *)
(***************************************************************************)
VARIABLES
    pc,        \* control location
    call,      \* main: index in tests of the running test_sort call (0: none)
    len,       \* test_sort: parameter len
    lbl,       \* test_sort: parameter lbl
    sortfn,    \* test_sort: parameter sortfn
    mask,      \* test_sort: loop variable mask
    typ,       \* test_sort: position in the array types (1 Simple, 2 Hidden)
    x,         \* test_sort: the input vector of the trial
    p,         \* sortfn: the latest pipeline vector p_stage
    stage,     \* sortfn: number of stages applied so far
    err_key,   \* test_sort: tally of is_sorted_key failures
    err_meta,  \* test_sort: tally of is_sorted_meta failures
    trials,    \* history: the (mask, mode) of every trial tallied, in order
    out,       \* standard output: the lines printed so far
    kind,      \* swap/shift call in progress: which method
    ops,       \* swap/shift call in progress: the operator list
    i,         \* swap/shift call in progress: position in ops (1-based)
    result     \* swap/shift call in progress: the vector under construction

vars == <<pc, call, len, lbl, sortfn, mask, typ, x, p, stage, err_key,
          err_meta, trials, out, kind, ops, i, result>>

callVars == <<kind, ops, i, result>>

\* let max_mask = 1u64 << len
max_mask == 2 ^ len

\* let types = [LaneArrayType::Simple(mask), LaneArrayType::Hidden(mask)]
types(m) == <<Simple(m), Hidden(m)>>

\* impl fmt::Display for LaneArray: the key values of all lanes
Display(v) == [n \in 1 .. LanesLen(v) |-> v[n - 1].key]

Line(l, text, keys) == [lbl |-> l, text |-> text, keys |-> keys]

\* Faulty variant of Summary: the two tallies are tested in the other order.
SummaryMetaFirst(ek, em) ==
    IF em > 0 THEN "Order not preserved."
    ELSE IF ek > 0 THEN "Sorting error."
    ELSE "All tests passed."

\* The summary report of test_sort.
Summary(ek, em) ==
    IF ek > 0 THEN "Sorting error."
    ELSE IF em > 0 THEN "Order not preserved."
    ELSE "All tests passed."

(***************************************************************************)
(* test_sort.                                                              *)
(***************************************************************************)
\* Entry of test_sort: the state before the first trial.
Enter(c, n, l, fn) ==
    /\ pc = "trial"
    /\ call = c /\ len = n /\ lbl = l /\ sortfn = fn
    /\ mask = 0 /\ typ = 1
    /\ err_key = 0 /\ err_meta = 0
    /\ trials = <<>>
    /\ x = <<>> /\ p = <<>> /\ stage = 0

\* let x = LaneArray::new(len, typ); and the call sortfn(&x) begins
NewTrial ==
    /\ pc = "trial"
    /\ x' = LaneArrayNew(len, types(mask)[typ])
    /\ p' = x'
    /\ stage' = 0
    /\ pc' = "sortfn"
    /\ UNCHANGED <<call, len, lbl, sortfn, mask, typ, err_key, err_meta,
                   trials, out>>
    /\ UNCHANGED callVars

\* let p_k = p_(k-1).swap(&vec![...]).  The function's assert_eq! on the lane
\* count is the guard on LanesLen(x): were it to fail, the call would panic and
\* no further step of the run would follow.
SwapStep ==
    /\ pc = "sortfn"
    /\ LanesLen(x) = sortfn.arity
    /\ stage < Len(sortfn.stages)
    /\ sortfn.stages[stage + 1].kind = "swap"
    /\ p' = swap(p, sortfn.stages[stage + 1].ops)
    /\ stage' = stage + 1
    /\ UNCHANGED <<pc, call, len, lbl, sortfn, mask, typ, x, err_key,
                   err_meta, trials, out>>
    /\ UNCHANGED callVars

\* let p_k = p_(k-1).shift(&vec![...])
ShiftStep ==
    /\ pc = "sortfn"
    /\ LanesLen(x) = sortfn.arity
    /\ stage < Len(sortfn.stages)
    /\ sortfn.stages[stage + 1].kind = "shift"
    /\ p' = shift(p, sortfn.stages[stage + 1].ops)
    /\ stage' = stage + 1
    /\ UNCHANGED <<pc, call, len, lbl, sortfn, mask, typ, x, err_key,
                   err_meta, trials, out>>
    /\ UNCHANGED callVars

\* Faulty variant of Tally: the enumeration stops at the first key failure.
TallyAbort ==
    /\ pc = "sortfn"
    /\ LanesLen(x) = sortfn.arity
    /\ stage = Len(sortfn.stages)
    /\ LET y == p
       IN  /\ err_key' = IF ~is_sorted_key(y) THEN err_key + 1 ELSE err_key
           /\ out' = IF ~is_sorted_key(y)
                     THEN out \o <<Line("", "x = ", Display(x)),
                                   Line("", "y = ", Display(y))>>
                     ELSE out
           /\ err_meta' = IF ~is_sorted_meta(y) THEN err_meta + 1 ELSE err_meta
           /\ trials' = Append(trials, <<mask, types(mask)[typ].tag>>)
           /\ IF ~is_sorted_key(y)
              THEN /\ typ' = typ
                   /\ mask' = mask
                   /\ pc' = "report"
              ELSE IF typ < Len(types(mask))
              THEN /\ typ' = typ + 1
                   /\ mask' = mask
                   /\ pc' = "trial"
              ELSE /\ typ' = 1
                   /\ mask' = mask + 1
                   /\ pc' = IF mask + 1 < max_mask THEN "trial" ELSE "report"
    /\ UNCHANGED <<call, len, lbl, sortfn, x, p, stage>>
    /\ UNCHANGED callVars

\* sortfn returns y; the two checks; the loops advance.
Tally ==
    /\ pc = "sortfn"
    /\ LanesLen(x) = sortfn.arity
    /\ stage = Len(sortfn.stages)
    /\ LET y == p
       IN  /\ err_key' = IF ~is_sorted_key(y) THEN err_key + 1 ELSE err_key
           /\ out' = IF ~is_sorted_key(y)
                     THEN out \o <<Line("", "x = ", Display(x)),
                                   Line("", "y = ", Display(y))>>
                     ELSE out
           /\ err_meta' = IF ~is_sorted_meta(y) THEN err_meta + 1 ELSE err_meta
    /\ trials' = Append(trials, <<mask, types(mask)[typ].tag>>)
    /\ IF typ < Len(types(mask))
       THEN /\ typ' = typ + 1
            /\ mask' = mask
            /\ pc' = "trial"
       ELSE /\ typ' = 1
            /\ mask' = mask + 1
            /\ pc' = IF mask + 1 < max_mask THEN "trial" ELSE "report"
    /\ UNCHANGED <<call, len, lbl, sortfn, x, p, stage>>
    /\ UNCHANGED callVars

\* Summary report
Report ==
    /\ pc = "report"
    /\ out' = Append(out, Line(lbl, Summary(err_key, err_meta), <<>>))
    /\ pc' = "done"
    /\ UNCHANGED <<call, len, lbl, sortfn, mask, typ, x, p, stage, err_key,
                   err_meta, trials>>
    /\ UNCHANGED callVars

(***************************************************************************)
(* main: the twelve calls of test_sort.  The calls share no state (each    *)
(* starts from fresh locals), so every call is explored from its own       *)
(* entry; out holds the lines the call prints.                             *)
(***************************************************************************)
Idle ==
    /\ kind = "none" /\ ops = <<>> /\ i = 0 /\ result = <<>>

Init ==
    /\ \E c \in 1 .. Len(tests) :
          Enter(c, tests[c].len, tests[c].lbl, tests[c].sortfn)
    /\ out = <<>>
    /\ Idle

Next == NewTrial \/ SwapStep \/ ShiftStep \/ Tally \/ Report

Spec == Init /\ [][Next]_vars

(***************************************************************************)
(* test_sort on its own, for candidate networks beyond the catalogue: the  *)
(* catalogue functions of at most ProbeLen lanes, and each of them with    *)
(* any of its stages left out (a defective candidate).                     *)
(***************************************************************************)
ProbeLen == 4

\* The stages of fn whose position is in keep, in their order.
RECURSIVE KeepStages(_, _, _)
KeepStages(stages, keep, k) ==
    IF k > Len(stages) THEN <<>>
    ELSE IF k \in keep THEN <<stages[k]>> \o KeepStages(stages, keep, k + 1)
    ELSE KeepStages(stages, keep, k + 1)

InitVerifier ==
    /\ \E c \in 1 .. Len(tests) :
          /\ tests[c].len <= ProbeLen
          /\ \E keep \in SUBSET (1 .. Len(tests[c].sortfn.stages)) :
                Enter(c, tests[c].len, tests[c].lbl,
                      [arity |-> tests[c].sortfn.arity,
                       stages |-> KeepStages(tests[c].sortfn.stages, keep, 1)])
    /\ out = <<>>
    /\ Idle

NextVerifier == NewTrial \/ SwapStep \/ ShiftStep \/ Tally \/ Report

SpecVerifier == InitVerifier /\ [][NextVerifier]_vars

\* The program is sequential and never blocks: a step that can be taken is taken.
FairVerifier == SpecVerifier /\ WF_vars(NextVerifier)

(***************************************************************************)
(* One call of swap or shift, operator by operator, on vectors of OpsLen   *)
(* lanes.  p is the receiver (&self), result the vector being built.       *)
(***************************************************************************)
\* Lane count of the operator-level runs: the arity of the first catalogue call.
OpsLen == tests[1].len

\* Operators (a, b) over n lanes with a # b.
Pairs(n) == {o \in (0 .. (n - 1)) \X (0 .. (n - 1)) : o[1] # o[2]}

Disjoint(o1, o2) == {o1[1], o1[2]} \cap {o2[1], o2[2]} = {}

\* The operator lists of a stage over n lanes: no index appears twice.
OpLists(n) ==
    {s \in UNION {[1 .. k -> Pairs(n)] : k \in 0 .. (n \div 2)} :
        \A j, k \in DOMAIN s : j < k => Disjoint(s[j], s[k])}

\* let mut result = self.clone(); the loop is about to start
BeginCall(k, o) ==
    /\ pc = "idle"
    /\ kind' = k
    /\ ops' = o
    /\ i' = 1
    /\ result' = p
    /\ pc' = "loop"
    /\ UNCHANGED <<call, len, lbl, sortfn, mask, typ, x, p, stage, err_key,
                   err_meta, trials, out>>

\* One iteration of the loop of swap.
LoopSwap ==
    /\ pc = "loop"
    /\ kind = "swap"
    /\ i <= Len(ops)
    /\ result' = swapOp(p, result, ops[i])
    /\ i' = i + 1
    /\ UNCHANGED <<pc, call, len, lbl, sortfn, mask, typ, x, p, stage,
                   err_key, err_meta, trials, out, kind, ops>>

\* One iteration of the loop of shift.
LoopShift ==
    /\ pc = "loop"
    /\ kind = "shift"
    /\ i <= Len(ops)
    /\ result' = shiftOp(p, result, ops[i])
    /\ i' = i + 1
    /\ UNCHANGED <<pc, call, len, lbl, sortfn, mask, typ, x, p, stage,
                   err_key, err_meta, trials, out, kind, ops>>

\* Stages are counted up to MaxDepth; later ones leave the count there.
MaxDepth == 2

\* return result; the caller binds it as the next pipeline vector
Return ==
    /\ pc = "loop"
    /\ i > Len(ops)
    /\ p' = result
    /\ stage' = IF stage < MaxDepth THEN stage + 1 ELSE stage
    /\ i' = 0
    /\ result' = <<>>
    /\ pc' = "idle"
    /\ UNCHANGED <<call, len, lbl, sortfn, mask, typ, x, err_key, err_meta,
                   trials, out, kind, ops>>

\* The variables of test_sort, unused while one call is examined.
NoTest(n) ==
    /\ call = 0 /\ len = n /\ lbl = ""
    /\ sortfn = [arity |-> n, stages |-> <<>>]
    /\ err_key = 0 /\ err_meta = 0 /\ trials = <<>> /\ out = <<>>

(***************************************************************************)
(* SpecStages: from every Simple and Hidden input of OpsLen lanes, any     *)
(* sequence of swap and shift stages.                                      *)
(***************************************************************************)
InitStages ==
    /\ pc = "idle"
    /\ NoTest(OpsLen)
    /\ mask \in 0 .. (2 ^ OpsLen - 1)
    /\ typ \in 1 .. 2
    /\ x = LaneArrayNew(OpsLen, types(mask)[typ])
    /\ p = x
    /\ stage = 0
    /\ Idle

AnyStage == \E k \in {"swap", "shift"} : \E o \in OpLists(OpsLen) : BeginCall(k, o)

NextStages == AnyStage \/ LoopSwap \/ LoopShift \/ Return

SpecStages == InitStages /\ [][NextStages]_vars

(***************************************************************************)
(* SpecOps: from an arbitrary vector of OpsLen lanes, one stage of either  *)
(* method, and then the same stage once more on its result.  Keys range    *)
(* over 0..MaxKey (valid lanes) and over PENALTY and PENALTY + 1 (invalid  *)
(* lanes); meta is the lane's index, so that every lane of the input is    *)
(* told apart.                                                             *)
(***************************************************************************)
MaxKey == 1

ArbKeys == (0 .. MaxKey) \cup {PENALTY, PENALTY + 1}

InitOps ==
    /\ pc = "idle"
    /\ NoTest(OpsLen)
    /\ mask = 0 /\ typ = 1
    /\ \E ks \in [0 .. (OpsLen - 1) -> ArbKeys] :
          x = [n \in 0 .. (OpsLen - 1) |-> [key |-> ks[n], meta |-> n]]
    /\ p = x
    /\ stage = 0
    /\ Idle

FirstStage ==
    /\ stage = 0
    /\ \E k \in {"swap", "shift"} : \E o \in OpLists(OpsLen) : BeginCall(k, o)

SameStageAgain ==
    /\ stage = 1
    /\ BeginCall(kind, ops)

NextOps == FirstStage \/ SameStageAgain \/ LoopSwap \/ LoopShift \/ Return

SpecOps == InitOps /\ [][NextOps]_vars

(***************************************************************************)
(* Properties.                                                             *)
(***************************************************************************)
\* The lanes of v that hold a valid value.
Valid(v) == {n \in DOMAIN v : v[n].key < PENALTY}

\* The lanes of an n-lane input that mask m disables, and their number.
Disabled(m, n) == {b \in 0 .. (n - 1) : MaskBit(m, b)}
PopCount(m, n) == Cardinality(Disabled(m, n))

\* The j-th (from 0) enabled lane of an n-lane input under mask m.
NthEnabled(m, n, j) ==
    CHOOSE e \in (0 .. (n - 1)) \ Disabled(m, n) :
        Cardinality({f \in (0 .. (n - 1)) \ Disabled(m, n) : f < e}) = j

\* sortfn has returned and its output has not been tallied yet.
PipelineDone == pc = "sortfn" /\ stage = Len(sortfn.stages)

\* The loop of a swap or shift call has finished; result is what it returns.
LoopDone == pc = "loop" /\ i > Len(ops)

\* Every trial of an n-lane check, as the log records them.
TrialIds(n) == (0 .. (2 ^ n - 1)) \X {"Simple", "Hidden"}
TypeOf(t) == [tag |-> t[2], mask |-> t[1]]

\* The output of fn for the trial t of an n-lane check.
Output(fn, n, t) == Apply(fn, LaneArrayNew(n, TypeOf(t)))

SummaryTexts == {"Sorting error.", "Order not preserved.", "All tests passed."}
IsSummary(l) == l.text \in SummaryTexts
Summaries == SelectSeq(out, IsSummary)

\* All orders of the operators of a list.
Perms(s) ==
    {[k \in 1 .. Len(s) |-> s[f[k]]] :
        f \in {g \in [1 .. Len(s) -> 1 .. Len(s)] :
                  \A a, b \in 1 .. Len(s) : a # b => g[a] # g[b]}}

\* v with every lane but a and b zeroed (an Empty vector around the pair).
OnlyPair(v, a, b) ==
    [n \in DOMAIN v |-> IF n \in {a, b} THEN v[n] ELSE [key |-> 0, meta |-> 0]]

\* C1: test_sort reports exactly one summary per check, and which one is
\* decided in strict priority: "Sorting error." iff some trial's output fails
\* is_sorted_key; "Order not preserved." iff none fails is_sorted_key and some
\* fails is_sorted_meta; "All tests passed." iff no trial fails either.
C1_ThreeWayClassification ==
    LET keyFails  == \E t \in TrialIds(len) : ~is_sorted_key(Output(sortfn, len, t))
        metaFails == \E t \in TrialIds(len) : ~is_sorted_meta(Output(sortfn, len, t))
    IN  /\ pc \in {"trial", "sortfn", "report"} => Summaries = <<>>
        /\ pc = "done" =>
              /\ Len(Summaries) = 1
              /\ Summaries[1].lbl = lbl
              /\ (Summaries[1].text = "Sorting error.") <=> keyFails
              /\ (Summaries[1].text = "Order not preserved.")
                    <=> (~keyFails /\ metaFails)
              /\ (Summaries[1].text = "All tests passed.")
                    <=> (~keyFails /\ ~metaFails)

\* A check that saw key failures and meta failures and reported the former.
C1_Witness ==
    /\ pc = "done"
    /\ err_key > 0 /\ err_meta > err_key
    /\ out[Len(out)].text = "Sorting error."

\* A check of a candidate that sorts but is not stable.
C1_WitnessOrder ==
    /\ pc = "done"
    /\ err_key = 0 /\ err_meta > 0
    /\ out[Len(out)].text = "Order not preserved."

\* A check of a candidate that passes.
C1_WitnessPassed ==
    /\ pc = "done"
    /\ err_key = 0 /\ err_meta = 0
    /\ out[Len(out)].text = "All tests passed."

\* C2, the part every state satisfies: the log holds distinct trials of the
\* check, both tallies count exactly the logged trials whose output fails, and
\* once the loops are left the log holds all 2 * 2^len trials.
C2_Tallies ==
    /\ \A k \in 1 .. Len(trials) : trials[k] \in TrialIds(len)
    /\ \A j, k \in 1 .. Len(trials) : j # k => trials[j] # trials[k]
    /\ err_key = Cardinality({k \in 1 .. Len(trials) :
                                 ~is_sorted_key(Output(sortfn, len, trials[k]))})
    /\ err_meta = Cardinality({k \in 1 .. Len(trials) :
                                 ~is_sorted_meta(Output(sortfn, len, trials[k]))})
    /\ pc \in {"report", "done"} =>
          /\ Len(trials) = 2 * 2 ^ len
          /\ {trials[k] : k \in 1 .. Len(trials)} = TrialIds(len)
    /\ pc = "done" => Len(Summaries) = 1

\* C2: test_sort evaluates exactly 2 * 2^len trials, every mask under Simple
\* and under Hidden, whatever failed earlier; every failure is tallied; and the
\* enumeration ends with the summary report.
C2_AllTrialsEvaluated == [] C2_Tallies /\ <>(pc = "done")

\* A finished check whose first trials failed both predicates and whose later
\* trials were still evaluated, some of them passing.
C2_Witness ==
    /\ pc = "done"
    /\ Len(trials) = 2 * 2 ^ len
    /\ err_key > 1 /\ err_key < Len(trials)
    /\ err_meta > err_key
    /\ ~is_sorted_key(Output(sortfn, len, trials[3]))
    /\ is_sorted_key(Output(sortfn, len, trials[Len(trials)]))

\* C3: for transpose8s and bubble8, every mask with exactly 3 disabled bits
\* and both modes: the output has exactly 8 - popcount(mask) valid lanes, they
\* are lanes 0..4, and their metas are the enabled lane indices in ascending
\* order.
C3_ShiftCompaction ==
    (PipelineDone /\ sortfn \in {transpose8s, bubble8} /\ PopCount(mask, len) = 3) =>
        /\ Cardinality(Valid(p)) = 8 - PopCount(mask, len)
        /\ Valid(p) = 0 .. 4
        /\ \A j \in 0 .. 4 : p[j].meta = NthEnabled(mask, len, j)

\* bubble8 has compacted the Hidden input with lanes 0, 2 and 4 disabled.
C3_Witness ==
    /\ PipelineDone
    /\ sortfn = bubble8
    /\ Disabled(mask, len) = {0, 2, 4}
    /\ typ = 2
    /\ [j \in 0 .. 4 |-> p[j].meta] = [j \in 0 .. 4 |-> <<1, 3, 5, 6, 7>>[j + 1]]
    /\ \A n \in 5 .. 7 : p[n] = [key |-> PENALTY, meta |-> PENALTY]

\* C4 as amended: bitonic4a and bitonic4b sort every trial by key (the
\* Simple(0) trial outputs keys 0,1,2,3), some trial's output fails
\* is_sorted_meta, and the check reports "Order not preserved.".
C4_Bitonic4OrderNotPreserved ==
    sortfn \in {bitonic4a, bitonic4b} =>
        /\ PipelineDone => is_sorted_key(p)
        /\ (PipelineDone /\ mask = 0 /\ typ = 1) => Display(p) = <<0, 1, 2, 3>>
        /\ pc = "done" =>
              /\ err_key = 0
              /\ err_meta > 0
              /\ out = <<Line(lbl, "Order not preserved.", <<>>)>>

\* The check of bitonic4a has finished with two meta failures.
C4_Witness ==
    /\ pc = "done"
    /\ sortfn = bitonic4a
    /\ err_key = 0 /\ err_meta = 2
    /\ Len(trials) = 32

\* C4 as stated: bitonic4a and bitonic4b are classified "All tests passed.":
\* no trial's output fails is_sorted_key or is_sorted_meta, and the Simple(0)
\* trial outputs keys 0,1,2,3.
C4_Bitonic4AllPassed ==
    sortfn \in {bitonic4a, bitonic4b} =>
        /\ PipelineDone => (is_sorted_key(p) /\ is_sorted_meta(p))
        /\ (PipelineDone /\ mask = 0 /\ typ = 1) => Display(p) = <<0, 1, 2, 3>>
        /\ pc = "done" => out = <<Line(lbl, "All tests passed.", <<>>)>>

\* C5: a shift stage never increases the number of valid lanes, for every
\* input vector and every stage of disjoint operators; nor does the same
\* stage applied again to its result.
C5_ShiftNeverAddsValid ==
    (LoopDone /\ kind = "shift") =>
        /\ Cardinality(Valid(result)) <= Cardinality(Valid(p))
        /\ Cardinality(Valid(p)) <= Cardinality(Valid(x))

\* A two-operator shift stage has run; one operator took the invalid branch
\* and promoted a valid lane.
C5_Witness ==
    /\ LoopDone /\ kind = "shift" /\ stage = 0
    /\ Len(ops) = 2
    /\ p[ops[1][1]].key >= PENALTY
    /\ p[ops[1][2]].key < PENALTY
    /\ result[ops[1][1]] = p[ops[1][2]]
    /\ Cardinality(Valid(result)) = 2

\* C6: in every vector reachable from a Simple or Hidden input by stages of
\* either method, every lane is the whole (key, meta) pair of one lane of the
\* input; and each operator applied leaves in both its lanes the whole pair
\* of one of its two input lanes, the overwritten lane of shift included.
C6_KeyMetaPaired ==
    /\ \A n \in DOMAIN p : \E m \in DOMAIN x : p[n] = x[m]
    /\ pc = "loop" =>
          /\ \A n \in DOMAIN result : \E m \in DOMAIN x : result[n] = x[m]
          /\ \A j \in 1 .. (i - 1) :
                LET a == ops[j][1]
                    b == ops[j][2]
                IN  /\ result[a] \in {p[a], p[b]}
                    /\ result[b] \in {p[a], p[b]}

\* After earlier stages, a shift operator has taken its invalid branch over a
\* valid second lane and overwritten it.
C6_Witness ==
    /\ LoopDone /\ kind = "shift" /\ stage >= 1
    /\ Len(ops) >= 1
    /\ p[ops[1][1]].key >= PENALTY
    /\ p[ops[1][2]].key < PENALTY
    /\ p[ops[1][2]].meta # ops[1][2]
    /\ result[ops[1][2]] = [key |-> PENALTY, meta |-> PENALTY]

\* C7: when a stage of disjoint operators has run, the vector returned is
\* the same for every order of the operators; each operator's two output
\* lanes are what the operator alone yields from the pre-stage values of its
\* own two lanes; lanes of no operator are as before; and the input vector
\* is unmodified.
C7_StageReadsSnapshot ==
    /\ (pc = "loop" /\ stage = 0) => p = x
    /\ LoopDone =>
          /\ \A o \in Perms(ops) : opsLoop(kind, p, p, o, 1) = result
          /\ \A j \in 1 .. Len(ops) :
                LET a == ops[j][1]
                    b == ops[j][2]
                    q == OnlyPair(p, a, b)
                    alone == stageOp(kind, q, q, ops[j])
                IN  result[a] = alone[a] /\ result[b] = alone[b]
          /\ \A n \in DOMAIN p :
                (\A j \in 1 .. Len(ops) : n \notin {ops[j][1], ops[j][2]})
                    => result[n] = p[n]

\* A swap stage of two operators has run and both exchanged their lanes.
C7_Witness ==
    /\ LoopDone /\ kind = "swap" /\ stage = 0
    /\ Len(ops) = 2
    /\ \A j \in 1 .. 2 :
          /\ p[ops[j][1]].key > p[ops[j][2]].key
          /\ result[ops[j][1]] = p[ops[j][2]]
          /\ result[ops[j][2]] = p[ops[j][1]]

\* C8: swap leaves a pair with v[a].key <= v[b].key as it is, ties included,
\* and otherwise exchanges the two whole lanes; applying the same operators
\* again to the result changes nothing.
C8_SwapOrderedNoOp ==
    (LoopDone /\ kind = "swap") =>
        /\ \A j \in 1 .. Len(ops) :
              LET a == ops[j][1]
                  b == ops[j][2]
              IN  IF p[a].key <= p[b].key
                  THEN result[a] = p[a] /\ result[b] = p[b]
                  ELSE result[a] = p[b] /\ result[b] = p[a]
        /\ stage = 1 => result = p

\* A single swap operator exchanged its lanes, and applied again to the
\* result, whose pair is now a tie-free ordered pair, changed nothing.
C8_Witness ==
    /\ LoopDone /\ kind = "swap" /\ stage = 1
    /\ Len(ops) = 1
    /\ p # x
    /\ result = p

\* A single swap operator over two lanes with equal keys left both in place.
C8_WitnessTie ==
    /\ LoopDone /\ kind = "swap" /\ stage = 0
    /\ Len(ops) = 1
    /\ p[ops[1][1]].key = p[ops[1][2]].key
    /\ result = p

\* C9: on every Simple and Hidden input of the check, transpose8s and
\* transpose8 hold the same vector after each of their stages, the last
\* included.
C9_ShiftEqualsSwap ==
    /\ (pc = "sortfn" /\ sortfn = transpose8s) => p = Pipeline(transpose8, x, stage)
    /\ (pc = "sortfn" /\ sortfn = transpose8) => p = Pipeline(transpose8s, x, stage)

\* transpose8s has returned for a Hidden input with lanes disabled below
\* enabled ones.
C9_Witness ==
    /\ PipelineDone
    /\ sortfn = transpose8s
    /\ typ = 2
    /\ Disabled(mask, len) = {0, 1, 4}
    /\ p # x
    /\ p = Apply(transpose8, x)

\* The sorting functions all of whose operators are (n, n + 1).
AdjacentOnly(fn) ==
    \A k \in 1 .. Len(fn.stages) :
        \A j \in 1 .. Len(fn.stages[k].ops) :
            fn.stages[k].ops[j][2] = fn.stages[k].ops[j][1] + 1

\* C10: the catalogue functions with adjacent-lane operators only are bubble8,
\* transpose8, transpose8s, transpose3s, transpose5s and transpose6s; every
\* output of each is non-decreasing in key and in meta, and test_sort reports
\* "All tests passed." for each.
C10_AdjacentNetworksPass ==
    /\ {tests[c].sortfn : c \in {c \in 1 .. Len(tests) : AdjacentOnly(tests[c].sortfn)}}
          = {bubble8, transpose8, transpose8s, transpose3s, transpose5s, transpose6s}
    /\ AdjacentOnly(sortfn) =>
          /\ PipelineDone => (is_sorted_key(p) /\ is_sorted_meta(p))
          /\ pc = "done" =>
                /\ err_key = 0 /\ err_meta = 0
                /\ out = <<Line(lbl, "All tests passed.", <<>>)>>

\* The check of transpose5s has finished and passed.
C10_Witness ==
    /\ pc = "done"
    /\ sortfn = transpose5s
    /\ Len(trials) = 64
    /\ out = <<Line(lbl, "All tests passed.", <<>>)>>

====
